---- MODULE Spec2Model ----
(***************************************************************************)
(* Model of the route optimiser of Projeto-agroRoute (src/otimizador.py)    *)
(* and of the Streamlit page that drives it (src/app.py).                   *)
(*                                                                          *)
(* Node indices are 0-based as in the Python code; the point list is a      *)
(* TLA+ sequence, so node i is pontos_coordenadas[i + 1].                   *)
(***************************************************************************)
EXTENDS Integers, Sequences, FiniteSets, TLC

(***************************************************************************)
(* Bounds of the model.                                                     *)
(***************************************************************************)
\* largest number of points handed to otimizar_rota in Spec
MaxN == 4
\* points of Spec lie at longitude 0..GridX on the line of latitude 0, or at (0, 1)
GridX == 3
\* largest number of points of SpecDist
MaxPts == 2
\* finite points of SpecDist have both coordinates in 0..GridMax
GridMax == 3

\* largest number of rows of the points table in SpecApp
MaxRows == 3
\* largest number of consecutive script runs started by st.rerun() that is followed
MaxReruns == 3
\* the literal 1000 of distancia_euclidiana / otimizar_rota / calcular_estatisticas_rota
Escala == 1000

(***************************************************************************)
(* Python floats.  A coordinate is finite (an integer of the grid), NaN,    *)
(* +Infinity or -Infinity.  v is 0 for the non-finite kinds.                *)
(***************************************************************************)
Fin(n) == [k |-> "fin", v |-> n]
NaN == [k |-> "nan", v |-> 0]
PInf == [k |-> "pinf", v |-> 0]
NInf == [k |-> "ninf", v |-> 0]

IsFinite(f) == f.k = "fin"

\* IEEE-754 subtraction a - b
FSub(a, b) ==
    IF a.k = "nan" \/ b.k = "nan" THEN NaN
    ELSE IF a.k = "fin" /\ b.k = "fin" THEN Fin(a.v - b.v)
    ELSE IF a.k = "fin" THEN (IF b.k = "pinf" THEN NInf ELSE PInf)
    ELSE IF a.k = b.k THEN NaN
    ELSE a

\* math.hypot(dx, dy): an infinite argument wins over NaN; a finite result is
\* the real number sqrt(sq), kept as its square.
Hypot(dx, dy) ==
    IF dx.k \in {"pinf", "ninf"} \/ dy.k \in {"pinf", "ninf"} THEN [k |-> "pinf", sq |-> 0]
    ELSE IF dx.k = "nan" \/ dy.k = "nan" THEN [k |-> "nan", sq |-> 0]
    ELSE [k |-> "fin", sq |-> dx.v * dx.v + dy.v * dy.v]

\* h * c for a non-negative integer c
RootTimes(h, c) == IF h.k = "fin" THEN [h EXCEPT !.sq = h.sq * c * c] ELSE h

RECURSIVE IsqrtBS(_, _, _)
IsqrtBS(n, lo, hi) ==
    IF lo >= hi THEN lo
    ELSE LET mid == (lo + hi + 1) \div 2
         IN IF mid * mid <= n THEN IsqrtBS(n, mid, hi) ELSE IsqrtBS(n, lo, mid - 1)

\* floor(sqrt(n))
Isqrt(n) == IsqrtBS(n, 0, 46340)

\* the conversion rounds to the nearest integer
PyIntM(h) ==
    IF h.k = "nan" THEN [exc |-> "ValueError", v |-> 0]
    ELSE IF h.k = "pinf" THEN [exc |-> "OverflowError", v |-> 0]
    ELSE [exc |-> "none", v |-> (Isqrt(4 * h.sq) + 1) \div 2]

\* int(x) of Python for x = sqrt(sq) >= 0: truncation; int(nan) raises ValueError,
\* int(inf) raises OverflowError.
PyInt(h) ==
    IF h.k = "nan" THEN [exc |-> "ValueError", v |-> 0]
    ELSE IF h.k = "pinf" THEN [exc |-> "OverflowError", v |-> 0]
    ELSE [exc |-> "none", v |-> Isqrt(h.sq)]

\* a and b are points <<longitude, latitude>>
distancia_euclidiana(a, b) ==
    PyInt(RootTimes(Hypot(FSub(a[1], b[1]), FSub(a[2], b[2])), Escala))

\* round(sqrt(sq)): the nearest integer (sqrt(sq) is an integer or irrational,
\* so there are no ties)
RoundRoot(sq) == (Isqrt(4 * sq) + 1) \div 2

(***************************************************************************)
(* The distance matrix of otimizar_rota, built row by row; the first cell   *)
(* whose distancia_euclidiana raises ends the construction.                 *)
(***************************************************************************)
Nodes(p) == 0 .. (Len(p) - 1)

Cell(p, i, j) == distancia_euclidiana(p[i + 1], p[j + 1])

\* row-major position of cell (i, j)
CellPos(p, i, j) == i * Len(p) + j

FailingCells(p) == {c \in Nodes(p) \X Nodes(p) : Cell(p, c[1], c[2]).exc # "none"}

FirstFailing(p) ==
    CHOOSE c \in FailingCells(p) :
        \A d \in FailingCells(p) : CellPos(p, c[1], c[2]) <= CellPos(p, d[1], d[2])

\* the exception raised while building the matrix, "none" if it is built
MatrixExc(p) ==
    IF FailingCells(p) = {} THEN "none"
    ELSE Cell(p, FirstFailing(p)[1], FirstFailing(p)[2]).exc

\* every row is filled from row 0
DistMatrixM(p) == [i \in 1 .. Len(p) |-> [j \in 1 .. Len(p) |-> Cell(p, 0, j - 1).v]]

\* dist_matrix as a sequence of rows; entry (i, j) is DistMatrix(p)[i + 1][j + 1]
DistMatrix(p) == [i \in 1 .. Len(p) |-> [j \in 1 .. Len(p) |-> Cell(p, i - 1, j - 1).v]]

\* dist_matrix[from_node][to_node] of distance_callback
distance_callback(m, from_node, to_node) == m[from_node + 1][to_node + 1]

\* one point is let through
TooFewM(p) == Len(p) < 1

\* line 64
TooFew(p) == Len(p) < 2

(***************************************************************************)
(* The routing solver (OR-Tools) as otimizar_rota configures it: one        *)
(* vehicle, start and end at node 0, PATH_CHEAPEST_ARC first solution,      *)
(* default local search (greedy descent), 30 s time limit.                  *)
(***************************************************************************)
Range(s) == {s[k] : k \in 1 .. Len(s)}

Last(s) == s[Len(s)]

\* true division n / d, kept exact
Div(n, d) == [num |-> n, den |-> d]

Unvisited(m, rota) == (0 .. (Len(m) - 1)) \ Range(rota)

\* the costliest arc is taken instead of the cheapest
CheapestNextM(m, rota) ==
    {j \in Unvisited(m, rota) :
        \A k \in Unvisited(m, rota) :
            distance_callback(m, Last(rota), j) >= distance_callback(m, Last(rota), k)}

\* PATH_CHEAPEST_ARC: the unvisited nodes joined to the end of the route by a
\* cheapest arc (the choice among equal arcs is the library's)
CheapestNext(m, rota) ==
    {j \in Unvisited(m, rota) :
        \A k \in Unvisited(m, rota) :
            distance_callback(m, Last(rota), j) <= distance_callback(m, Last(rota), k)}

RECURSIVE SumArcs(_, _, _)
SumArcs(m, t, k) ==
    IF k >= Len(t) THEN 0
    ELSE distance_callback(m, t[k], t[k + 1]) + SumArcs(m, t, k + 1)

\* the objective of a closed route: the sum of its arc costs
RouteCost(m, t) == SumArcs(m, t, 1)

\* positions of the route that a move may change (never the start or the end)
Inner(t) == 2 .. (Len(t) - 1)

\* 2-opt: reverse the sub-path between positions i and j
TwoOpt(t, i, j) == [k \in 1 .. Len(t) |-> IF i <= k /\ k <= j THEN t[i + j - k] ELSE t[k]]

\* exchange the nodes at positions i and j
Exchange(t, i, j) ==
    [k \in 1 .. Len(t) |-> IF k = i THEN t[j] ELSE IF k = j THEN t[i] ELSE t[k]]

\* relocate the node at position i to position j
Relocate(t, i, j) ==
    [k \in 1 .. Len(t) |->
        IF i < j THEN (IF k < i \/ k > j THEN t[k] ELSE IF k = j THEN t[i] ELSE t[k + 1])
        ELSE (IF k < j \/ k > i THEN t[k] ELSE IF k = j THEN t[i] ELSE t[k - 1])]

Neighbours(t) ==
    {TwoOpt(t, i, j) : i \in Inner(t), j \in Inner(t)}
    \cup {Exchange(t, i, j) : i \in Inner(t), j \in Inner(t)}
    \cup {Relocate(t, i, j) : i \in Inner(t), j \in Inner(t)}

\* the descent also accepts neighbours of equal cost
ImprovingM(m, t) == {u \in Neighbours(t) : RouteCost(m, u) <= RouteCost(m, t)}

\* the neighbours the descent accepts: strictly cheaper routes
Improving(m, t) == {u \in Neighbours(t) : RouteCost(m, u) < RouteCost(m, t)}

(***************************************************************************)
(* The real-route value obter_rota_real hands on: None, or a dict that may  *)
(* hold a 'features' list (other: it holds some other key, so it is truthy  *)
(* without 'features').                                                     *)
(***************************************************************************)
CaminhosNone == [kind |-> "None", has_features |-> FALSE, other |-> FALSE, features |-> <<>>]

CaminhosDict(hf, o, fs) == [kind |-> "dict", has_features |-> hf, other |-> o, features |-> fs]

\* truth value of `caminhos`: a dict is true when it is not empty
Truthy(c) == c.kind = "dict" /\ (c.has_features \/ c.other)

\* the straight-line total of a sequence leaves out its closing leg
DistanciaRetaM(p, seq) ==
    LET leg[i \in 0 .. (Len(seq) - 1)] ==
            IF i = 0 THEN 0
            ELSE leg[i - 1] + distancia_euclidiana(p[seq[i] + 1], p[seq[i + 1] + 1]).v
    IN leg[IF Len(seq) >= 2 THEN Len(seq) - 2 ELSE 0]

\* calcular_estatisticas_rota, lines 298-305: the straight-line total of a sequence
DistanciaReta(p, seq) ==
    LET leg[i \in 0 .. (Len(seq) - 1)] ==
            IF i = 0 THEN 0
            ELSE leg[i - 1] + distancia_euclidiana(p[seq[i] + 1], p[seq[i + 1] + 1]).v
    IN leg[IF Len(seq) >= 1 THEN Len(seq) - 1 ELSE 0]

\* calcular_estatisticas_rota: exc is "IndexError" when features[0] does not exist
calcular_estatisticas_rota(p, seq, caminhos) ==
    IF Truthy(caminhos) /\ caminhos.has_features
    THEN IF Len(caminhos.features) = 0
         THEN [exc |-> "IndexError", stats |-> <<>>]
         ELSE [exc |-> "none",
               stats |-> [num_pontos |-> Len(p),
                          num_paradas |-> Len(seq),
                          fonte |-> "real",
                          distancia_km |-> Div(caminhos.features[1].distance, 1000),
                          tempo_horas |-> Div(caminhos.features[1].duration, 3600),
                          tempo_minutos |-> Div(caminhos.features[1].duration, 60)]]
    ELSE [exc |-> "none",
          stats |-> [num_pontos |-> Len(p),
                     num_paradas |-> Len(seq),
                     fonte |-> "reta",
                     distancia_km |-> Div(DistanciaReta(p, seq), 1000),
                     tempo_horas |-> Div(DistanciaReta(p, seq), 1000 * 60),
                     tempo_minutos |-> Div(DistanciaReta(p, seq) * 60, 1000 * 60)]]

(***************************************************************************)
(* otimizar_rota as one step, for its callers: every outcome a call can     *)
(* have.                                                                    *)
(***************************************************************************)
Raise(e) == [kind |-> "raise", exc |-> e]
Return(v) == [kind |-> "return", value |-> v]

\* the walk stops at the end index without appending it
ExtractedM(r, obj) == <<SubSeq(r, 1, Len(r) - 1), Div(obj, Escala)>>

\* lines 106-118: the (sequence, total) pair
Extracted(r, obj) == <<r, Div(obj, Escala)>>

\* the closed routes PATH_CHEAPEST_ARC can build from the partial route
RECURSIVE FirstSolutions(_, _)
FirstSolutions(m, rota) ==
    IF Unvisited(m, rota) = {} THEN {Append(rota, 0)}
    ELSE UNION {FirstSolutions(m, Append(rota, j)) : j \in CheapestNext(m, rota)}

\* the routes the descent can hold from route t on; the time limit can end it at
\* any of them
RECURSIVE Descent(_, _)
Descent(m, t) == {t} \cup UNION {Descent(m, u) : u \in Improving(m, t)}

Solutions(m) == UNION {Descent(m, t) : t \in FirstSolutions(m, <<0>>)}

otimizar_rota(p) ==
    IF TooFew(p) THEN {Raise("ValueError")}
    ELSE IF MatrixExc(p) # "none" THEN {Raise(MatrixExc(p))}
    ELSE {Raise("RuntimeError")}
         \cup {Return(Extracted(t, RouteCost(DistMatrix(p), t))) : t \in Solutions(DistMatrix(p))}

\* list(reversed(c)): [lon, lat] to [lat, lon]
Reversed(c) == <<c[2], c[1]>>

\* the straight line is drawn through the points in table order
LinhaRetaM(p, seq) ==
    [tipo |-> "reta", locations |-> [k \in 1 .. Len(p) |-> Reversed(p[k])]]

\* gerar_mapa, lines 244-254: straight lines through the stops in sequence order
LinhaReta(p, seq) ==
    [tipo |-> "reta", locations |-> [k \in 1 .. Len(seq) |-> Reversed(p[seq[k] + 1])]]

\* gerar_mapa, lines 223-243: the line of the real route
LinhaReal(caminhos) ==
    [tipo |-> "real",
     locations |-> [k \in 1 .. Len(caminhos.features[1].coordinates) |->
                        Reversed(caminhos.features[1].coordinates[k])]]

DesenhaReal(caminhos) ==
    Truthy(caminhos) /\ caminhos.has_features /\ Len(caminhos.features) > 0

\* gerar_mapa: the centre, one marker per stop, and the line
gerar_mapa(p, nomes, seq, caminhos) ==
    [centro |-> Reversed(p[seq[1] + 1]),
     marcadores |-> [k \in 1 .. Len(seq) |->
                        [local |-> Reversed(p[seq[k] + 1]),
                         nome |-> nomes[seq[k] + 1],
                         cor |-> IF k = 1 THEN "green"
                                 ELSE IF k = Len(seq) THEN "red" ELSE "blue"]],
     linha |-> IF DesenhaReal(caminhos) THEN LinhaReal(caminhos) ELSE LinhaReta(p, seq)]

\* obter_rota_real: what the routing service answers for the stops, or None when
\* the client raises (lines 139-154)
obter_rota_real(key, pontos_otimizados) ==
    {CaminhosNone,
     CaminhosDict(FALSE, TRUE, <<>>),
     CaminhosDict(TRUE, FALSE, <<>>),
     CaminhosDict(TRUE, FALSE,
                  <<[coordinates |-> pontos_otimizados, distance |-> 1500, duration |-> 120]>>)}

(***************************************************************************)
(* State of one call of otimizar_rota.                                      *)
(***************************************************************************)
Pending == [kind |-> "pending"]

VARIABLES
    pontos_coordenadas,  \* the argument
    pc,                  \* position in otimizar_rota
    dist_matrix,         \* <<>> until built
    rota,                \* the solver's route: nodes from Start(0) on
    objective,           \* the solver's objective value
    status,              \* how the search ended: "none", "local_optimum", "timeout"
                         \* (limit hit during the local search), "no_solution"
    ret,                 \* outcome of the call
    \* st.session_state and the widgets of the page (app.py)
    pontos,              \* session_state.pontos: the rows of the table
    resultado,           \* session_state.resultado
    mapa_gerado,         \* session_state.mapa_gerado
    api_key,             \* the text input of the sidebar
    uploaded_file,       \* the file held by the uploader
    rerun,               \* st.rerun() was called: another script run follows
    ultima,              \* what the last run of the OTIMIZAR ROTA handler did
    reruns               \* script runs started by st.rerun() since the last widget event

optvars == <<pontos_coordenadas, pc, dist_matrix, rota, objective, status, ret>>

appvars == <<pontos, resultado, mapa_gerado, api_key, uploaded_file, rerun, ultima, reruns>>

vars == <<optvars, appvars>>

None == [kind |-> "None"]

NoFile == [kind |-> "none", valid |-> FALSE, df |-> <<>>]

NoRun == [fase |-> "nenhuma"]

Row(n, c) == [nome |-> n, longitude |-> c[1], latitude |-> c[2]]

\* the places a user enters: a farm at longitude 0 and a port at longitude 1
Rows == {Row("A", <<Fin(0), Fin(0)>>), Row("B", <<Fin(1), Fin(0)>>)}

\* lines 66-71: the default table, two places close to each other and a far one
PontosPadrao ==
    <<Row("A", <<Fin(0), Fin(0)>>), Row("A", <<Fin(0), Fin(0)>>), Row("B", <<Fin(1), Fin(0)>>)>>

\* lines 64-77
AppStart ==
    /\ pontos = PontosPadrao
    /\ resultado = None
    /\ mapa_gerado = None
    /\ api_key = ""
    /\ uploaded_file = NoFile
    /\ rerun = FALSE
    /\ ultima = NoRun
    /\ reruns = 0

\* no call of otimizar_rota is being traced
OptIdle ==
    /\ pontos_coordenadas = <<>>
    /\ pc = "idle"
    /\ dist_matrix = <<>>
    /\ rota = <<>>
    /\ objective = 0
    /\ status = "none"
    /\ ret = Pending


\* finite points of Spec
OptPoints == {<<Fin(x), Fin(0)>> : x \in 0 .. GridX} \cup {<<Fin(0), Fin(1)>>}

RECURSIVE Lists(_, _)
Lists(S, n) ==
    IF n = 0 THEN {<<>>}
    ELSE {Append(l, e) : l \in Lists(S, n - 1), e \in S}

ListsUpTo(S, n) == UNION {Lists(S, k) : k \in 0 .. n}

CallStart(p) ==
    /\ pontos_coordenadas = p
    /\ pc = "check"
    /\ dist_matrix = <<>>
    /\ rota = <<>>
    /\ objective = 0
    /\ status = "none"
    /\ ret = Pending
    /\ AppStart

\* the square of side 10 with the depot at its first corner
Quadrado == <<<<Fin(0), Fin(0)>>, <<Fin(10), Fin(0)>>, <<Fin(10), Fin(10)>>, <<Fin(0), Fin(10)>>>>

Init == \E p \in ListsUpTo(OptPoints, MaxN) \cup {Quadrado} : CallStart(p)

\* lines 64-65
CheckLen ==
    /\ pc = "check"
    /\ IF TooFew(pontos_coordenadas)
       THEN pc' = "done" /\ ret' = Raise("ValueError")
       ELSE pc' = "matrix" /\ ret' = ret
    /\ UNCHANGED <<pontos_coordenadas, dist_matrix, rota, objective, status>>
    /\ UNCHANGED appvars

\* lines 67-73
BuildMatrix ==
    /\ pc = "matrix"
    /\ IF MatrixExc(pontos_coordenadas) # "none"
       THEN /\ pc' = "done"
            /\ ret' = Raise(MatrixExc(pontos_coordenadas))
            /\ UNCHANGED <<dist_matrix, rota>>
       ELSE /\ pc' = "first_solution"
            /\ dist_matrix' = DistMatrix(pontos_coordenadas)
            /\ rota' = <<0>>
            /\ ret' = ret
    /\ UNCHANGED <<pontos_coordenadas, objective, status>>
    /\ UNCHANGED appvars

\* SolveWithParameters, first solution: extend the route by a cheapest arc
ExtendRoute ==
    /\ pc = "first_solution"
    /\ Unvisited(dist_matrix, rota) # {}
    /\ \E j \in CheapestNext(dist_matrix, rota) :
          /\ rota' = Append(rota, j)
          /\ objective' = objective + distance_callback(dist_matrix, Last(rota), j)
    /\ UNCHANGED <<pontos_coordenadas, pc, dist_matrix, status, ret>>
    /\ UNCHANGED appvars

\* SolveWithParameters, first solution: every node is on the route, close it at End(0)
CloseRoute ==
    /\ pc = "first_solution"
    /\ Unvisited(dist_matrix, rota) = {}
    /\ rota' = Append(rota, 0)
    /\ objective' = objective + distance_callback(dist_matrix, Last(rota), 0)
    /\ pc' = "local_search"
    /\ UNCHANGED <<pontos_coordenadas, dist_matrix, status, ret>>
    /\ UNCHANGED appvars

\* SolveWithParameters, local search: accept an improving neighbour
Improve ==
    /\ pc = "local_search"
    /\ \E u \in Improving(dist_matrix, rota) :
          /\ rota' = u
          /\ objective' = RouteCost(dist_matrix, u)
    /\ UNCHANGED <<pontos_coordenadas, pc, dist_matrix, status, ret>>
    /\ UNCHANGED appvars

\* the local search may stop while an improving neighbour is left
LocalOptimumM ==
    /\ pc = "local_search"
    /\ status' = "local_optimum"
    /\ pc' = "extract"
    /\ UNCHANGED <<pontos_coordenadas, dist_matrix, rota, objective, ret>>
    /\ UNCHANGED appvars

\* SolveWithParameters, local search: no improving neighbour is left
LocalOptimum ==
    /\ pc = "local_search"
    /\ Improving(dist_matrix, rota) = {}
    /\ status' = "local_optimum"
    /\ pc' = "extract"
    /\ UNCHANGED <<pontos_coordenadas, dist_matrix, rota, objective, ret>>
    /\ UNCHANGED appvars

\* the time limit treated as a failure
TimeLimitSearchM ==
    /\ pc = "local_search"
    /\ status' = "timeout"
    /\ pc' = "done"
    /\ ret' = Raise("RuntimeError")
    /\ UNCHANGED <<pontos_coordenadas, dist_matrix, rota, objective>>
    /\ UNCHANGED appvars

\* the 30 s of line 98 run out during the local search: the best route so far
\* is the solution
TimeLimitSearch ==
    /\ pc = "local_search"
    /\ status' = "timeout"
    /\ pc' = "extract"
    /\ UNCHANGED <<pontos_coordenadas, dist_matrix, rota, objective, ret>>
    /\ UNCHANGED appvars

\* the 30 s run out before a first solution: SolveWithParameters returns None
\* and lines 103-104 raise
TimeLimitNoSolution ==
    /\ pc = "first_solution"
    /\ status' = "no_solution"
    /\ pc' = "done"
    /\ ret' = Raise("RuntimeError")
    /\ UNCHANGED <<pontos_coordenadas, dist_matrix, rota, objective>>
    /\ UNCHANGED appvars

Extract ==
    /\ pc = "extract"
    /\ ret' = Return(Extracted(rota, objective))
    /\ pc' = "done"
    /\ UNCHANGED <<pontos_coordenadas, dist_matrix, rota, objective, status>>
    /\ UNCHANGED appvars

Next ==
    \/ CheckLen
    \/ BuildMatrix
    \/ ExtendRoute
    \/ CloseRoute
    \/ Improve
    \/ LocalOptimum
    \/ TimeLimitSearch
    \/ TimeLimitNoSolution
    \/ Extract

Spec == Init /\ [][Next]_vars

(***************************************************************************)
(* The distance model alone: the first half of otimizar_rota over a larger  *)
(* grid, non-finite coordinates included.                                   *)
(***************************************************************************)
NonFinite == {NaN, PInf, NInf}

\* the grid, and the points with one or two non-finite coordinates
DistPoints ==
    {<<Fin(x), Fin(y)>> : x \in 0 .. GridMax, y \in 0 .. GridMax}
    \cup {<<s, Fin(0)>> : s \in NonFinite}
    \cup {<<Fin(0), s>> : s \in NonFinite}
    \cup {<<NaN, PInf>>, <<PInf, NaN>>}

InitDist == \E p \in ListsUpTo(DistPoints, MaxPts) : CallStart(p)

NextDist ==
    \/ CheckLen
    \/ BuildMatrix

SpecDist == InitDist /\ [][NextDist]_vars

(***************************************************************************)
(* The page (app.py).  Every action is one script run, started by a widget  *)
(* event or by st.rerun().  A run executes the page top to bottom: the      *)
(* form of the sidebar, the import block, the example button, then the      *)
(* main area (table editor, Limpar Todos, OTIMIZAR ROTA, results).          *)
(* st.rerun() and st.stop() end the run where they are called.              *)
(***************************************************************************)
\* lines 167-171: the example table
PontosExemplo ==
    <<Row("A", <<Fin(0), Fin(0)>>), Row("A", <<Fin(0), Fin(0)>>), Row("B", <<Fin(1), Fin(0)>>)>>

\* the files a user can select: one without the three columns, and valid ones
Files ==
    {[kind |-> "csv", valid |-> FALSE, df |-> <<>>],
     [kind |-> "csv", valid |-> TRUE,
      df |-> <<Row("B", <<Fin(1), Fin(0)>>), Row("A", <<Fin(0), Fin(0)>>)>>]}

\* line 138-141: a run with this file imports it and reruns
Imports(f) == f.kind = "csv" /\ f.valid

\* lines 142-146
ImportRun(f) ==
    /\ pontos' = f.df
    /\ resultado' = None
    /\ rerun' = TRUE
    /\ ultima' = NoRun
    /\ UNCHANGED mapa_gerado

\* lines 253-257
Coordenadas(tabela) == [k \in 1 .. Len(tabela) |-> <<tabela[k].longitude, tabela[k].latitude>>]

Nomes(tabela) == [k \in 1 .. Len(tabela) |-> tabela[k].nome]

\* line 271
PontosOtimizados(coords, seq) == [k \in 1 .. Len(seq) |-> coords[seq[k] + 1]]

\* lines 283-290
Resultado(tabela, seq, stats) ==
    [kind |-> "dict",
     sequencia |-> seq,
     distancia_km |-> stats.distancia_km,
     tempo_horas |-> stats.tempo_horas,
     tempo_minutos |-> stats.tempo_minutos,
     sequencia_nomes |-> [k \in 1 .. Len(seq) |-> Nomes(tabela)[seq[k] + 1]],
     stats |-> stats]

\* the map is stored as soon as it is drawn, before the statistics are computed
HandlerM ==
    IF api_key = ""
    THEN /\ ultima' = [fase |-> "sem_chave"]
         /\ rerun' = FALSE
         /\ UNCHANGED <<pontos, resultado, mapa_gerado>>
    ELSE \E out \in otimizar_rota(Coordenadas(pontos)) :
           IF out.kind = "raise"
           THEN /\ ultima' = [fase |-> "erro", em |-> "otimizar_rota", exc |-> out.exc]
                /\ rerun' = FALSE
                /\ UNCHANGED <<pontos, resultado, mapa_gerado>>
           ELSE \E caminhos \in obter_rota_real(api_key,
                                    PontosOtimizados(Coordenadas(pontos), out.value[1])) :
                  LET sequencia == out.value[1]
                      mapa == gerar_mapa(Coordenadas(pontos), Nomes(pontos), sequencia, caminhos)
                      est == calcular_estatisticas_rota(Coordenadas(pontos), sequencia, caminhos)
                  IN IF est.exc # "none"
                     THEN /\ ultima' = [fase |-> "erro", em |-> "calcular_estatisticas_rota",
                                        exc |-> est.exc]
                          /\ rerun' = FALSE
                          /\ mapa_gerado' = mapa
                          /\ UNCHANGED <<pontos, resultado>>
                     ELSE /\ resultado' = Resultado(pontos, sequencia, est.stats)
                          /\ mapa_gerado' = mapa
                          /\ rerun' = TRUE
                          /\ ultima' = [fase |-> "ok", sequencia |-> sequencia,
                                        distancia |-> out.value[2], caminhos |-> caminhos]
                          /\ UNCHANGED pontos

\* lines 245-306: the handler of the button; the except clause reports and goes on
Handler ==
    IF api_key = ""
    THEN /\ ultima' = [fase |-> "sem_chave"]
         /\ rerun' = FALSE
         /\ UNCHANGED <<pontos, resultado, mapa_gerado>>
    ELSE \E out \in otimizar_rota(Coordenadas(pontos)) :
           IF out.kind = "raise"
           THEN /\ ultima' = [fase |-> "erro", em |-> "otimizar_rota", exc |-> out.exc]
                /\ rerun' = FALSE
                /\ UNCHANGED <<pontos, resultado, mapa_gerado>>
           ELSE \E caminhos \in obter_rota_real(api_key,
                                    PontosOtimizados(Coordenadas(pontos), out.value[1])) :
                  LET sequencia == out.value[1]
                      mapa == gerar_mapa(Coordenadas(pontos), Nomes(pontos), sequencia, caminhos)
                      est == calcular_estatisticas_rota(Coordenadas(pontos), sequencia, caminhos)
                  IN IF est.exc # "none"
                     THEN /\ ultima' = [fase |-> "erro", em |-> "calcular_estatisticas_rota",
                                        exc |-> est.exc]
                          /\ rerun' = FALSE
                          /\ UNCHANGED <<pontos, resultado, mapa_gerado>>
                     ELSE /\ resultado' = Resultado(pontos, sequencia, est.stats)
                          /\ mapa_gerado' = mapa
                          /\ rerun' = TRUE
                          /\ ultima' = [fase |-> "ok", sequencia |-> sequencia,
                                        distancia |-> out.value[2], caminhos |-> caminhos]
                          /\ UNCHANGED pontos

\* a key is typed (or cleared) in the sidebar
DigitarChave ==
    /\ reruns' = 0
    /\ \E k \in {"", "chave"} : k # api_key /\ api_key' = k
    /\ IF Imports(uploaded_file) THEN ImportRun(uploaded_file)
       ELSE /\ rerun' = FALSE
            /\ ultima' = NoRun
            /\ UNCHANGED <<pontos, resultado, mapa_gerado>>
    /\ UNCHANGED <<uploaded_file, optvars>>

\* lines 109-130: the form is submitted with a name
AdicionarPonto ==
    /\ reruns' = 0
    /\ Len(pontos) < MaxRows
    /\ \E r \in Rows : pontos' = Append(pontos, r)
    /\ resultado' = None
    /\ rerun' = TRUE
    /\ ultima' = NoRun
    /\ UNCHANGED <<mapa_gerado, api_key, uploaded_file, optvars>>

\* a file is put in the uploader
SelecionarArquivo ==
    /\ reruns' = 0
    /\ \E f \in Files :
          /\ f # uploaded_file
          /\ uploaded_file' = f
          /\ IF Imports(f) THEN ImportRun(f)
             ELSE /\ rerun' = FALSE
                  /\ ultima' = NoRun
                  /\ UNCHANGED <<pontos, resultado, mapa_gerado>>
    /\ UNCHANGED <<api_key, optvars>>

\* the file is taken out of the uploader
RemoverArquivo ==
    /\ reruns' = 0
    /\ uploaded_file # NoFile
    /\ uploaded_file' = NoFile
    /\ rerun' = FALSE
    /\ ultima' = NoRun
    /\ UNCHANGED <<pontos, resultado, mapa_gerado, api_key, optvars>>

\* lines 165-173
CarregarExemplo ==
    /\ reruns' = 0
    /\ IF Imports(uploaded_file) THEN ImportRun(uploaded_file)
       ELSE /\ pontos' = PontosExemplo
            /\ resultado' = None
            /\ rerun' = TRUE
            /\ ultima' = NoRun
            /\ UNCHANGED mapa_gerado
    /\ UNCHANGED <<api_key, uploaded_file, optvars>>

\* the tables one edit of the data editor makes of t: a row changed, a row
\* deleted, a row added at the end
Edicoes(t) ==
    ({[t EXCEPT ![k] = r] : k \in 1 .. Len(t), r \in Rows} \ {t})
    \cup {[j \in 1 .. (Len(t) - 1) |-> IF j < k THEN t[j] ELSE t[j + 1]] : k \in 1 .. Len(t)}
    \cup (IF Len(t) < MaxRows THEN {Append(t, r) : r \in Rows} ELSE {})

\* an edit of the table keeps the stored result
EditarTabelaM ==
    /\ reruns' = 0
    /\ Len(pontos) > 0
    /\ IF Imports(uploaded_file) THEN ImportRun(uploaded_file)
       ELSE /\ \E t \in Edicoes(pontos) : pontos' = t
            /\ rerun' = FALSE
            /\ ultima' = NoRun
            /\ UNCHANGED <<resultado, mapa_gerado>>
    /\ UNCHANGED <<api_key, uploaded_file, optvars>>

\* lines 206-221: rows are edited, added or deleted in the table
EditarTabela ==
    /\ reruns' = 0
    /\ Len(pontos) > 0
    /\ IF Imports(uploaded_file) THEN ImportRun(uploaded_file)
       ELSE /\ \E t \in Edicoes(pontos) : pontos' = t
            /\ resultado' = None
            /\ rerun' = FALSE
            /\ ultima' = NoRun
            /\ UNCHANGED mapa_gerado
    /\ UNCHANGED <<api_key, uploaded_file, optvars>>

\* lines 228-232
LimparTodos ==
    /\ reruns' = 0
    /\ Len(pontos) > 0
    /\ IF Imports(uploaded_file) THEN ImportRun(uploaded_file)
       ELSE /\ pontos' = <<>>
            /\ resultado' = None
            /\ mapa_gerado' = None
            /\ rerun' = TRUE
            /\ ultima' = NoRun
    /\ UNCHANGED <<api_key, uploaded_file, optvars>>

\* lines 242-308: the button is there with 2 points or more
OtimizarRota ==
    /\ reruns' = 0
    /\ Len(pontos) >= 2
    /\ IF Imports(uploaded_file) THEN ImportRun(uploaded_file) ELSE Handler
    /\ UNCHANGED <<api_key, uploaded_file, optvars>>

\* the run after st.rerun(): no widget fired
Rerun ==
    /\ rerun
    /\ reruns < MaxReruns
    /\ reruns' = reruns + 1
    /\ IF Imports(uploaded_file) THEN ImportRun(uploaded_file)
       ELSE /\ rerun' = FALSE
            /\ UNCHANGED <<pontos, resultado, mapa_gerado, ultima>>
    /\ UNCHANGED <<api_key, uploaded_file, optvars>>

InitApp == OptIdle /\ AppStart

NextApp ==
    \/ DigitarChave
    \/ AdicionarPonto
    \/ SelecionarArquivo
    \/ RemoverArquivo
    \/ CarregarExemplo
    \/ EditarTabela
    \/ LimparTodos
    \/ OtimizarRota
    \/ Rerun

SpecApp == InitApp /\ [][NextApp]_vars

(***************************************************************************)
(* Properties.                                                              *)
(***************************************************************************)
N == Len(pontos_coordenadas)

Returned == pc = "done" /\ ret.kind = "return"

Raised(e) == pc = "done" /\ ret = Raise(e)

\* t is a closed tour of nodes 0..n-1 rooted at node 0
ClosedTour(t, n) ==
    /\ Len(t) = n + 1
    /\ t[1] = 0
    /\ t[Len(t)] = 0
    /\ \A i \in 0 .. (n - 1) : Cardinality({k \in 1 .. n : t[k] = i}) = 1

AllFinite(p) == \A k \in 1 .. Len(p) : IsFinite(p[k][1]) /\ IsFinite(p[k][2])

\* the rational r equals the integer n
RatEqInt(r, n) == r.num = n * r.den

\* C1: for N >= 2 the sequence otimizar_rota returns starts and ends with 0, has
\* length N+1, and holds every index of 0..N-1 exactly once before the closing 0.
C1_ClosedTour == (Returned /\ N >= 2) => ClosedTour(ret.value[1], N)

C1_Witness == Returned /\ N = 4 /\ ret.value[1] # <<0, 1, 2, 3, 0>>

\* C2: with fewer than 2 points otimizar_rota raises ValueError before the
\* distance matrix is built or the solver is started, and returns no tour.
C2_RejectsFewPoints ==
    N < 2 =>
        /\ pc \in {"check", "done"}
        /\ dist_matrix = <<>> /\ rota = <<>> /\ status = "none"
        /\ pc = "done" => ret = Raise("ValueError")

C2_Witness == Raised("ValueError") /\ N = 1 /\ dist_matrix = <<>>

\* C5 as stated: the reported total equals the sum of dist_matrix along the returned
\* tour, and so does the straight-line total of calcular_estatisticas_rota.
C5_TotalIsSum ==
    Returned =>
        /\ RatEqInt(ret.value[2], RouteCost(dist_matrix, ret.value[1]))
        /\ RatEqInt(calcular_estatisticas_rota(pontos_coordenadas, ret.value[1],
                                               CaminhosNone).stats.distancia_km,
                    RouteCost(dist_matrix, ret.value[1]))

\* C5 amended: the total otimizar_rota reports and the straight-line distancia_km of
\* calcular_estatisticas_rota for the same tour are both the sum of dist_matrix
\* along the returned closed tour divided by 1000.
C5_TotalIsSumOver1000 ==
    Returned =>
        /\ ret.value[2] = Div(RouteCost(dist_matrix, ret.value[1]), 1000)
        /\ calcular_estatisticas_rota(pontos_coordenadas, ret.value[1],
                                      CaminhosNone).stats.distancia_km
             = Div(RouteCost(dist_matrix, ret.value[1]), 1000)

C5_Witness ==
    /\ Returned /\ N = 4
    /\ RouteCost(dist_matrix, ret.value[1]) > 0
    /\ calcular_estatisticas_rota(pontos_coordenadas, ret.value[1],
                                  CaminhosNone).stats.fonte = "reta"

\* C7 as stated: a search ended by the time limit still returns a valid tour, and
\* the result carries a converged flag, false then and true at a local optimum.
C7_ConvergedFlag ==
    (pc = "done" /\ status \in {"timeout", "local_optimum"}) =>
        /\ ret.kind = "return"
        /\ ClosedTour(ret.value[1], N)
        /\ Len(ret.value) >= 3
        /\ ret.value[3] = (status = "local_optimum")

\* C7 amended: a local search ended by the time limit is a normal termination: the
\* call returns a valid tour and its total, the same (sequence, total) pair shape
\* as after a converged search; the pair holds no converged flag.
C7_TimeLimitReturnsTour ==
    (pc = "done" /\ status \in {"timeout", "local_optimum"}) =>
        /\ ret.kind = "return"
        /\ ClosedTour(ret.value[1], N)
        /\ Len(ret.value) = 2

C7_Witness ==
    /\ Returned /\ status = "timeout"
    /\ Improving(dist_matrix, ret.value[1]) # {}

\* C8 as stated: for every N >= 1 (finite points) the call returns a valid tour, and
\* the only exception it can raise is the invalid-input one.
C8_AlwaysTourFromOne ==
    pc = "done" =>
        /\ (N >= 1 /\ AllFinite(pontos_coordenadas)) =>
               (ret.kind = "return" /\ ClosedTour(ret.value[1], N))
        /\ ret.kind = "raise" => ret.exc = "ValueError"

\* progress of a call: the phases are passed in order, and within a phase a
\* non-negative quantity shrinks with every step
PhaseNo ==
    CASE pc = "check" -> 0
      [] pc = "matrix" -> 1
      [] pc = "first_solution" -> 2
      [] pc = "local_search" -> 3
      [] pc = "extract" -> 4
      [] pc = "done" -> 5

Remaining ==
    CASE pc = "first_solution" -> N + 1 - Len(rota)
      [] pc = "local_search" -> objective
      [] OTHER -> 0

\* C8 amended: the call always terminates (every step moves to a later phase or
\* shrinks a non-negative quantity: nodes still to place, then the objective); for N >= 2 finite points it returns a
\* valid tour unless the solver has no solution when the time limit ends, and then
\* it raises RuntimeError; for N < 2 it raises ValueError.
C8_TerminatesTourFromTwo ==
    /\ [][PhaseNo' > PhaseNo \/ (PhaseNo' = PhaseNo /\ Remaining' < Remaining)]_vars
    /\ [](Remaining >= 0)
    /\ [](pc = "done" =>
            /\ ret.kind \in {"return", "raise"}
            /\ ret.kind = "return" => (N >= 2 /\ ClosedTour(ret.value[1], N))
            /\ ret.kind = "raise" =>
                  \/ ret.exc = "ValueError" /\ N < 2
                  \/ ret.exc = "RuntimeError" /\ N >= 2 /\ status = "no_solution"
            /\ (N >= 2 /\ status # "no_solution") => ret.kind = "return")

C8_Witness == Raised("RuntimeError") /\ N = 3 /\ Len(rota) = 2

\* C9 as stated: one point gives the trivial tour [0, 0] with total 0, no point
\* gives the invalid-input error.
C9_TrivialTourForOne ==
    /\ (pc = "done" /\ N = 1) =>
           (ret.kind = "return" /\ ret.value[1] = <<0, 0>> /\ RatEqInt(ret.value[2], 0))
    /\ (pc = "done" /\ N = 0) => ret = Raise("ValueError")

\* C9 amended: one point is rejected with ValueError exactly as no point is; the
\* trivial tour [0, 0] is never returned.
C9_OnePointRejected ==
    /\ (pc = "done" /\ N \in {0, 1}) => ret = Raise("ValueError")
    /\ Returned => ret.value[1] # <<0, 0>>

C9_Witness == Raised("ValueError") /\ N = 1 /\ pontos_coordenadas[1] = <<Fin(0), Fin(0)>>

(***************************************************************************)
(* Properties of the distance model (SpecDist).                             *)
(***************************************************************************)
MatrixBuilt == pc = "first_solution"

\* squared planar distance of nodes i and j (finite points)
SqDist(p, i, j) ==
    (p[i + 1][1].v - p[j + 1][1].v) * (p[i + 1][1].v - p[j + 1][1].v)
    + (p[i + 1][2].v - p[j + 1][2].v) * (p[i + 1][2].v - p[j + 1][2].v)

\* C3 as stated: every entry of the matrix is the scaled distance rounded to the
\* nearest integer.
C3_EntryRounded ==
    MatrixBuilt =>
        \A i, j \in Nodes(pontos_coordenadas) :
            distance_callback(dist_matrix, i, j)
              = RoundRoot(SqDist(pontos_coordenadas, i, j) * Escala * Escala)

\* C3 amended: every entry (i, j) of the matrix is the scaled Euclidean distance
\* sqrt((xi-xj)^2 + (yi-yj)^2) * 1000 truncated to an integer (rounded down).
C3_EntryTruncated ==
    MatrixBuilt =>
        \A i, j \in Nodes(pontos_coordenadas) :
            LET c == distance_callback(dist_matrix, i, j)
                q == SqDist(pontos_coordenadas, i, j) * Escala * Escala
            IN c >= 0 /\ c * c <= q /\ q < (c + 1) * (c + 1)

C3_Witness ==
    /\ MatrixBuilt /\ N = 2
    /\ SqDist(pontos_coordenadas, 0, 1) = 13
    /\ distance_callback(dist_matrix, 0, 1) = 3605

\* C4: the matrix built from finite points holds non-negative integers, zeros on
\* the diagonal, equal entries at (i, j) and (j, i), and 0 between equal points.
C4_MatrixShape ==
    (MatrixBuilt /\ AllFinite(pontos_coordenadas)) =>
        /\ Len(dist_matrix) = N
        /\ \A i, j \in Nodes(pontos_coordenadas) :
              /\ Len(dist_matrix[i + 1]) = N
              /\ distance_callback(dist_matrix, i, j) \in Nat
              /\ distance_callback(dist_matrix, i, i) = 0
              /\ distance_callback(dist_matrix, i, j) = distance_callback(dist_matrix, j, i)
              /\ pontos_coordenadas[i + 1] = pontos_coordenadas[j + 1]
                    => distance_callback(dist_matrix, i, j) = 0

C4_Witness ==
    /\ MatrixBuilt /\ N = 2
    /\ pontos_coordenadas[1] = pontos_coordenadas[2]
    /\ pontos_coordenadas[1] # <<Fin(0), Fin(0)>>

HasNonFinite(p) == ~AllFinite(p)

\* C6: a point list with a non-finite coordinate ends in the invalid-input error,
\* the ValueError raised for too few points, wherever the coordinate is; it never
\* reaches the solver.
C6_NonFiniteIsValueError ==
    HasNonFinite(pontos_coordenadas) =>
        /\ pc \in {"check", "matrix", "done"}
        /\ pc = "done" => ret = Raise("ValueError")

(***************************************************************************)
(* Properties of the page (SpecApp).                                        *)
(***************************************************************************)
\* the OTIMIZAR ROTA handler has just run to its end with the service down
ServicoFalhou == ultima.fase = "ok" /\ ultima.caminhos = CaminhosNone

\* C10: when obter_rota_real returns None the run still stores its tour and its
\* statistics, and the map's line is the straight line through the stops in the
\* order of the returned tour; the stored tour is the one otimizar_rota returned,
\* whatever the service answered.
C10_FallbackStraightLines ==
    /\ ServicoFalhou =>
          /\ resultado # None /\ mapa_gerado # None
          /\ resultado.stats.fonte = "reta"
          /\ resultado.distancia_km = ultima.distancia
          /\ mapa_gerado.linha.tipo = "reta"
          /\ Len(mapa_gerado.linha.locations) = Len(ultima.sequencia)
          /\ \A k \in 1 .. Len(ultima.sequencia) :
                mapa_gerado.linha.locations[k]
                  = <<pontos[ultima.sequencia[k] + 1].latitude,
                      pontos[ultima.sequencia[k] + 1].longitude>>
    /\ ultima.fase = "ok" =>
          /\ resultado # None
          /\ resultado.sequencia = ultima.sequencia
          /\ ClosedTour(resultado.sequencia, Len(pontos))

C10_Witness ==
    /\ ServicoFalhou
    /\ Len(pontos) = 3
    /\ resultado.sequencia = <<0, 2, 1, 0>>
    /\ mapa_gerado.linha.locations[3] # mapa_gerado.linha.locations[2]

\* C11: a failed optimization leaves no partial result: otimizar_rota either raises
\* or returns a complete (tour, total) pair, and in the page a run of the handler
\* that raises leaves resultado and mapa_gerado exactly as they were, while a run
\* that succeeds replaces both by the outputs of that one run.
C11_NoPartialResult ==
    /\ [][ultima'.fase = "erro" =>
            (resultado' = resultado /\ mapa_gerado' = mapa_gerado)]_vars
    /\ [](ultima.fase = "ok" =>
            /\ resultado
                 = Resultado(pontos, ultima.sequencia,
                             calcular_estatisticas_rota(Coordenadas(pontos), ultima.sequencia,
                                                        ultima.caminhos).stats)
            /\ mapa_gerado
                 = gerar_mapa(Coordenadas(pontos), Nomes(pontos), ultima.sequencia,
                              ultima.caminhos))
    /\ [](\A out \in otimizar_rota(Coordenadas(pontos)) :
            \/ out.kind = "raise" /\ DOMAIN out = {"kind", "exc"}
            \/ /\ out.kind = "return" /\ DOMAIN out = {"kind", "value"}
               /\ Len(out.value) = 2
               /\ ClosedTour(out.value[1], Len(pontos)))

\* a run fails in the statistics while an earlier result and map are stored
C11_Witness ==
    /\ ultima.fase = "erro"
    /\ ultima.em = "calcular_estatisticas_rota"
    /\ resultado # None
    /\ mapa_gerado # None

\* C12 (as stated): for the square A=(0,0), B=(10,0), C=(10,10), D=(0,10) with
\* depot A the returned tour is the perimeter in one of its two directions and
\* the reported total equals 40 * 1000 = 40000.
C12_SquareTotal40000 ==
    (pontos_coordenadas = Quadrado /\ Returned) =>
        /\ ret.value[1] \in {<<0, 1, 2, 3, 0>>, <<0, 3, 2, 1, 0>>}
        /\ RatEqInt(ret.value[2], 40 * Escala)

\* C12 (amended): for the square the returned tour is the perimeter in one of
\* its two directions, never a tour using a diagonal, and the reported total is
\* the solver's objective 40000 divided by 1000, that is 40.0.
C12_SquarePerimeterTotal40 ==
    (pontos_coordenadas = Quadrado /\ Returned) =>
        /\ ret.value[1] \in {<<0, 1, 2, 3, 0>>, <<0, 3, 2, 1, 0>>}
        /\ objective = 40 * Escala
        /\ ret.value[2] = Div(40 * Escala, Escala)
        /\ RatEqInt(ret.value[2], 40)

\* the call on the square has returned
C12_Witness == pontos_coordenadas = Quadrado /\ Returned

\* the tour t admits no 2-opt exchange that strictly reduces its cost: for two
\* edges (a,b) and (c,d) of the tour, the reconnection (a,c), (b,d) with the
\* sub-path b..c reversed costs at least as much
TwoOptOptimal(m, t) ==
    \A i \in 2 .. (Len(t) - 1) : \A j \in (i + 1) .. (Len(t) - 1) :
        LET a == t[i - 1]
            b == t[i]
            c == t[j]
            d == t[j + 1]
            novo == [k \in 1 .. Len(t) |-> IF k < i \/ k > j THEN t[k] ELSE t[i + j - k]]
        IN /\ distance_callback(m, a, c) + distance_callback(m, b, d)
               >= distance_callback(m, a, b) + distance_callback(m, c, d)
           /\ RouteCost(m, novo) >= RouteCost(m, t)

C14_ResultOfCurrentPoints ==
    (resultado # None /\ mapa_gerado # None) =>
        LET seq == resultado.sequencia
        IN /\ \A k \in 1 .. Len(seq) : seq[k] \in 0 .. (Len(pontos) - 1)
           /\ ClosedTour(seq, Len(pontos))
           /\ \E out \in otimizar_rota(Coordenadas(pontos)) :
                 out.kind = "return" /\ out.value[1] = seq
           /\ \E caminhos \in obter_rota_real("chave",
                                    PontosOtimizados(Coordenadas(pontos), seq)) :
                 /\ mapa_gerado = gerar_mapa(Coordenadas(pontos), Nomes(pontos), seq, caminhos)
                 /\ resultado
                      = Resultado(pontos, seq,
                                  calcular_estatisticas_rota(Coordenadas(pontos), seq,
                                                             caminhos).stats)

\* a result is displayed for a table of three rows that is neither the initial
\* table, the example nor an imported file: rows were added or edited before the optimization
C14_Witness ==
    /\ resultado # None
    /\ mapa_gerado # None
    /\ Len(pontos) = 3
    /\ pontos \notin {PontosPadrao, PontosExemplo}
    /\ \A f \in Files : pontos # f.df

\* C15: for every shape of the real-route value that gerar_mapa accepts (None, a
\* dict without 'features', a dict with an empty 'features' list, a dict with a
\* non-empty one) calcular_estatisticas_rota returns statistics without raising,
\* and the statistics come from the real route exactly when the map draws it.
C15_StatsForEveryShape ==
    /\ ultima.fase = "erro" => ultima.em # "calcular_estatisticas_rota"
    /\ ultima.fase = "ok" =>
          ((resultado.stats.fonte = "real") <=> DesenhaReal(ultima.caminhos))

\* C16: after a valid CSV is imported the script proceeds past the import block:
\* while the file stays selected in the uploader, the run started by the
\* import's st.rerun() does not import and rerun again, so no second
\* consecutive rerun is ever started.
C16_ImportRunsOnce ==
    Imports(uploaded_file) => reruns <= 1

====
